---- MODULE Spec2Model ----
(***************************************************************************)
(* De Lijn bus tracker: the polling coordinator (__init__.py), the API     *)
(* client (api.py) and the sensors (sensor.py) as state machines.          *)
(*                                                                         *)
(*   Spec       the integration as shipped: the coordinator polling with   *)
(*              the DeLijnApi client of api.py                             *)
(*   SpecCycle  the coordinator's poll cycle with the results of the       *)
(*              client's two entry points drawn from bounded sets          *)
(*   SpecStats  calls of _update_delay_stats with arguments drawn from     *)
(*              bounded sets                                               *)
(*   SpecApi    calls of DeLijnApi.get_schedule_times against upstream     *)
(*              feeds drawn from bounded sets                              *)
(***************************************************************************)
EXTENDS Integers, Sequences, FiniteSets, TLC

(***************************************************************************)
(* Python values.  None is the empty tuple and a present value v is <<v>>, *)
(* so that an optional integer can be compared with None.  A dict is a     *)
(* function whose DOMAIN is its key set.                                   *)
(***************************************************************************)
None == <<>>

Some(v) == <<v>>

Val(o) == o[1]

EmptyDict == [k \in {} |-> None]

DictSet(d, k, v) == [x \in (DOMAIN d) \cup {k} |-> IF x = k THEN v ELSE d[x]]

DictGet(d, k, default) == IF k \in DOMAIN d THEN d[k] ELSE default

(***************************************************************************)
(* Time.  A datetime is a number of seconds; its calendar date is its day  *)
(* number.                                                                 *)
(***************************************************************************)
DaySeconds == 24 * 60 * 60

DateOf(sec) == sec \div DaySeconds

\* Python's round(): to the nearest integer, a tie to the even one.
RoundDiv(n, d) ==
    LET q == n \div d
        r == n % d
    IN  IF 2 * r < d THEN q
        ELSE IF 2 * r > d THEN q + 1
        ELSE IF q % 2 = 0 THEN q ELSE q + 1

(***************************************************************************)
(* const.py: the delay thresholds, in minutes.                             *)
(***************************************************************************)
DELAY_HIGH == 10

DELAY_MEDIUM == 5

DELAY_LOW == 1

EARLY_HIGH == 6

EARLY_MEDIUM == 3

EARLY_LOW == 1

(***************************************************************************)
(* Bounds of the model.                                                    *)
(***************************************************************************)
\* delays range over -MaxDelay..MaxDelay
MaxDelay == 12

\* calls of _update_delay_stats in a behaviour of SpecStats
MaxStatCalls == 2

\* the clock runs over the days 0..MaxDay
MaxDay == 1

\* poll cycles in a behaviour
MaxCycles == 2

\* seconds a slow upstream request takes
SlowRequest == 15

\* departures in one upstream schedule feed
MaxFeed == 2

\* the departure the cycle found lies at most this many days ahead
MaxAhead == 2

\* calls of _update_delay_stats for one device in a behaviour of SpecRuns
MaxRun == 4

(***************************************************************************)
(* Timestamp strings.  "YYYY-MM-DDTHH:MM:SS" with or without a trailing Z  *)
(* is [sec, z]; two strings are equal when both fields are.  A parsed      *)
(* datetime keeps sec and is timezone-aware exactly when the string had Z  *)
(* (.replace('Z', '+00:00') before fromisoformat).                         *)
(***************************************************************************)
Timestamp(sec, z) == [sec |-> sec, z |-> z]

\* s.split("T")[1][:5]: the HH:MM of the text, as a minute of the day
HmText(ts) == (ts.sec % DaySeconds) \div 60

\* the configured time of both devices, 08:00:00 on day 0
EightOClock == 8 * 60 * 60

(***************************************************************************)
(* entry.data["devices"]: the configured devices (config_flow.py:178-190). *)
(***************************************************************************)
Devices ==
    << [halte_number |-> "h1", line_number |-> "L1",
        scheduled_time |-> Timestamp(EightOClock, FALSE),
        entity_number |-> Some("e1")],
       [halte_number |-> "h1", line_number |-> "L2",
        scheduled_time |-> Timestamp(EightOClock, FALSE),
        entity_number |-> None] >>

\* __init__.py:206 and sensor.py:127
TargetTime(device) == HmText(device.scheduled_time)

\* __init__.py:208 and sensor.py:128-132: f"{halte}_{line}_{target_time}"
DeviceId(device) ==
    <<device.halte_number, device.line_number, TargetTime(device)>>

DeviceIds == {DeviceId(Devices[i]) : i \in DOMAIN Devices}

Delays == (0 - MaxDelay)..MaxDelay

Buckets == {"high_delay", "medium_delay", "low_delay",
            "high_early", "medium_early", "low_early"}

VARIABLES
    now,            \* the wall clock, in seconds
    delay_stats,    \* coordinator._delay_stats: device_id -> stats
    latest_delays,  \* coordinator._latest_delays: device_id -> date -> sample
    store,          \* the content of the durable Store (None: nothing stored)
    save_tasks,     \* _async_save_data tasks created and not yet run
    call,           \* the last call of _update_delay_stats: arguments and the stats before it
    ncalls,         \* calls made so far in SpecStats (bounded)
    rises,          \* per device: how often delay_counter rose since the last call
                    \* with realtime data
    pc,             \* where _async_update_data stands
    idx,            \* the position of the device loop in Devices
    data,           \* the cycle's result dict under construction
    device_id,      \* the loop's local variable device_id (None: unbound)
    today,          \* the cycle's local variable today (line 199)
    schedule_times, \* the loop's local variable schedule_times
    elapsed,        \* seconds spent inside the async_timeout block
    outcome,        \* how the last cycle ended
    coordinator_data, \* coordinator.data: the last snapshot the host was given
    ncycles,        \* cycles started so far (bounded)
    step,           \* what the last loop iteration did
    log,            \* the entries this cycle computed, the devices whose fetch failed, and
                    \* the snapshot and the statistics the cycle started with
    api_pc,         \* where get_schedule_times stands
    api_args,       \* its arguments
    api_loc,        \* its local variables
    api_result,     \* how its last call ended, and the list returned
    requests,       \* the upstream requests the current call has issued, in order
    rt_pc,          \* where get_realtime_data stands
    rt_args,        \* its arguments
    rt_loc,         \* its local variables
    rt_result,      \* how its last call ended, and what it returned
    session,        \* what the calls of the session so far did about the stop's entity
    shown,          \* the sensor state last written to the host
    malformed       \* the positions in self.devices of records that lack a field or
                    \* whose scheduled time has no "T"

clockVars == <<now>>

coordVars == <<delay_stats, latest_delays, store, save_tasks>>

statVars == <<call, ncalls, rises>>

cycleVars == <<pc, idx, data, device_id, today, schedule_times, elapsed,
               outcome, coordinator_data, ncycles, step, log>>

apiVars == <<api_pc, api_args, api_loc, api_result, requests>>

rtVars == <<rt_pc, rt_args, rt_loc, rt_result>>

hostVars == <<shown>>

confVars == <<malformed>>

vars == <<clockVars, coordVars, statVars, cycleVars, apiVars, rtVars, session,
          hostVars, confVars>>

(***************************************************************************)
(* _update_delay_stats (__init__.py:132-187)                               *)
(***************************************************************************)
ZeroStats ==
    [delay_counter |-> 0,
     high_delay |-> 0, medium_delay |-> 0, low_delay |-> 0,
     high_early |-> 0, medium_early |-> 0, low_early |-> 0,
     last_delay |-> None, last_delay_date |-> None,
     last_had_realtime |-> TRUE]

\* a variant of DelayBucket: the high threshold taken inclusive
DelayBucketInclusive(delay) ==
    IF delay >= DELAY_HIGH THEN "high_delay"
    ELSE IF delay > DELAY_MEDIUM THEN "medium_delay"
    ELSE IF delay > DELAY_LOW THEN "low_delay"
    ELSE IF delay < 0 - EARLY_HIGH THEN "high_early"
    ELSE IF delay < 0 - EARLY_MEDIUM THEN "medium_early"
    ELSE IF delay < 0 - EARLY_LOW THEN "low_early"
    ELSE "none"

\* The if/elif chain of lines 161-178: the counter a delay increments.
DelayBucket(delay) ==
    IF delay > DELAY_HIGH THEN "high_delay"
    ELSE IF delay > DELAY_MEDIUM THEN "medium_delay"
    ELSE IF delay > DELAY_LOW THEN "low_delay"
    ELSE IF delay < 0 - EARLY_HIGH THEN "high_early"
    ELSE IF delay < 0 - EARLY_MEDIUM THEN "medium_early"
    ELSE IF delay < 0 - EARLY_LOW THEN "low_early"
    ELSE "none"

\* a variant of LostRealtimeAfterDelay: it does not ask that realtime data was lost
LostRealtimeAfterDelayAlways(stats, had_realtime) ==
    /\ stats.last_delay # None
    /\ Val(stats.last_delay) > DELAY_LOW
    /\ stats.last_had_realtime

\* a variant of LostRealtimeAfterDelay: whether the call before had
\* realtime data is not asked
LostRealtimeAfterDelayAnyRun(stats, had_realtime) ==
    /\ stats.last_delay # None
    /\ Val(stats.last_delay) > DELAY_LOW
    /\ ~had_realtime

\* The condition of lines 153-156.
LostRealtimeAfterDelay(stats, had_realtime) ==
    /\ stats.last_delay # None
    /\ Val(stats.last_delay) > DELAY_LOW
    /\ stats.last_had_realtime
    /\ ~had_realtime

\* Lines 152-157.
StepCounter(stats, had_realtime) ==
    IF LostRealtimeAfterDelay(stats, had_realtime)
    THEN [stats EXCEPT !.delay_counter = @ + 1]
    ELSE stats

\* a variant of StepBuckets: the thresholds tested by separate ifs, so that
\* a delay counts in every band whose threshold it passes
StepBucketsEveryBand(stats, delay) ==
    IF delay = None THEN stats
    ELSE [stats EXCEPT
            !.high_delay = @ + (IF Val(delay) > DELAY_HIGH THEN 1 ELSE 0),
            !.medium_delay = @ + (IF Val(delay) > DELAY_MEDIUM THEN 1 ELSE 0),
            !.low_delay = @ + (IF Val(delay) > DELAY_LOW THEN 1 ELSE 0),
            !.high_early = @ + (IF Val(delay) < 0 - EARLY_HIGH THEN 1 ELSE 0),
            !.medium_early = @ + (IF Val(delay) < 0 - EARLY_MEDIUM THEN 1 ELSE 0),
            !.low_early = @ + (IF Val(delay) < 0 - EARLY_LOW THEN 1 ELSE 0)]

\* Lines 159-178.
StepBuckets(stats, delay) ==
    IF delay # None /\ DelayBucket(Val(delay)) # "none"
    THEN [stats EXCEPT ![DelayBucket(Val(delay))] = @ + 1]
    ELSE stats

\* a variant of StepLast: the delay and the date are stored whether or not
\* there is a delay
StepLastAlways(stats, delay, had_realtime, day) ==
    [stats EXCEPT !.last_delay = delay,
                  !.last_delay_date = Some(day),
                  !.last_had_realtime = had_realtime]

\* Lines 180-184.
StepLast(stats, delay, had_realtime, day) ==
    LET s == IF delay # None
             THEN [stats EXCEPT !.last_delay = delay,
                                !.last_delay_date = Some(day)]
             ELSE stats
    IN  [s EXCEPT !.last_had_realtime = had_realtime]

\* a variant of update_delay_stats: the device's entry is made anew by
\* every call
update_delay_stats_anew(stats_map, key, delay, had_realtime, day) ==
    DictSet(stats_map, key,
            StepLast(StepBuckets(StepCounter(ZeroStats, had_realtime), delay),
                     delay, had_realtime, day))

\* The whole method on the _delay_stats dict (the save task of line 187 is
\* created by the calling action).
update_delay_stats(stats_map, key, delay, had_realtime, day) ==
    LET stats == DictGet(stats_map, key, ZeroStats)
    IN  DictSet(stats_map, key,
                StepLast(StepBuckets(StepCounter(stats, had_realtime), delay),
                         delay, had_realtime, day))

\* lines 152-157 and 184 over the calls for one device: how often its
\* delay_counter has risen since the last call with realtime data
RisesAfter(r, before_map, after_map, key, had_realtime) ==
    DictSet(r, key,
            IF had_realtime THEN 0
            ELSE DictGet(r, key, 0)
                 + (IF after_map[key].delay_counter
                        > DictGet(before_map, key, ZeroStats).delay_counter
                    THEN 1 ELSE 0))

(***************************************************************************)
(* _async_save_data (__init__.py:121-130): a save task runs and writes the *)
(* three maps as they are at that time, or the write raises and is logged. *)
(* The store is read only while _delay_stats is empty (line 192), and a    *)
(* save task exists only once it is not, so no step of a run reads what a  *)
(* save task of that run wrote: the specifications of the poll cycle count *)
(* the tasks created (save_tasks) and leave their running out of Next;     *)
(* SpecSave runs them.                                                     *)
(***************************************************************************)
\* a variant of StoredContent: the statistics are left out of what is saved
StoredContentWithoutStats ==
    [delay_stats |-> EmptyDict, latest_delays |-> latest_delays,
     last_update_time |-> EmptyDict]

StoredContent ==
    [delay_stats |-> delay_stats, latest_delays |-> latest_delays,
     last_update_time |-> EmptyDict]

\* one save task runs; the write is taken, or it raises (lines 129-130)
SaveTaskRuns(ok) ==
    /\ save_tasks > 0
    /\ save_tasks' = save_tasks - 1
    /\ store' = IF ok THEN Some(StoredContent) ELSE store
    /\ UNCHANGED <<confVars, hostVars, clockVars, delay_stats, latest_delays, statVars,
                   cycleVars, apiVars, rtVars, session>>

RunSaveTask == \E ok \in BOOLEAN : SaveTaskRuns(ok)

\* a save task runs against a Store that takes the write
SaveWrites == SaveTaskRuns(TRUE)

(***************************************************************************)
(* The results of the client's entry points, as the coordinator sees them. *)
(***************************************************************************)
\* One element of the list get_schedule_times returns (api.py:249-259).
ScheduleEntry(sec, z, clock) ==
    [time |-> HmText(Timestamp(sec, z)),
     timestamp |-> Timestamp(sec, z),
     waiting_time |-> RoundDiv(sec - clock, 60),
     date |-> DateOf(sec)]

\* What awaiting get_schedule_times can give: it raises (api.py:297-299),
\* or returns no entry, the entry of the target time, or another one of the
\* line (api.py:232).
ScheduleOutcomes(device, clock) ==
    LET target == DateOf(clock) * DaySeconds + 60 * TargetTime(device)
        z == device.scheduled_time.z
    IN  { [raised |-> TRUE, value |-> <<>>],
          [raised |-> FALSE, value |-> <<>>],
          [raised |-> FALSE, value |-> <<ScheduleEntry(target, z, clock)>>] }

\* seconds between the scheduled and the observed time of a realtime match
RealtimeOffsets == {420}

\* What awaiting get_realtime_data can give (api.py:392-403): {} (here
\* None), or the match, whose dienstregelingTijdstip is the string asked
\* for.  The observed time is that of the configured day or of the day of
\* the clock.
RealtimeOutcomes(device, clock) ==
    {None} \cup
    { Some([dienstregelingTijdstip |-> Some(device.scheduled_time),
            realtime_time |->
                Some(Timestamp(device.scheduled_time.sec + off + d * DaySeconds,
                               device.scheduled_time.z))]) :
        off \in RealtimeOffsets, d \in {0, DateOf(clock)} }

\* async_timeout.timeout(30), __init__.py:196
CycleTimeout == 30

\* how long an upstream request may take: no time, a while, or for ever
Durations == {0, SlowRequest, CycleTimeout}


(***************************************************************************)
(* The loop body of _async_update_data after the realtime lookup           *)
(* (__init__.py:231-272).                                                  *)
(***************************************************************************)
\* line 232
HasRealtime(rt) ==
    /\ rt # None
    /\ Val(rt).realtime_time # None
    /\ Val(rt).dienstregelingTijdstip # None

RealTimeOf(rt) == Val(Val(rt).realtime_time)

SchedTimeOf(rt) == Val(Val(rt).dienstregelingTijdstip)

\* a variant of FreshDelay: the date of the observation is not looked at
FreshDelayAnyDate(rt, day) ==
    IF HasRealtime(rt)
    THEN Some(RoundDiv(RealTimeOf(rt).sec - SchedTimeOf(rt).sec, 60))
    ELSE None

\* lines 232-242: latest_delay
FreshDelay(rt, day) ==
    IF HasRealtime(rt) /\ DateOf(RealTimeOf(rt).sec) = day
    THEN Some(RoundDiv(RealTimeOf(rt).sec - SchedTimeOf(rt).sec, 60))
    ELSE None

\* lines 244-248 and 253-257: today's sample stored, older dates dropped
DeviceDelaysAfter(device_delays, rt, day) ==
    LET stored == IF FreshDelay(rt, day) # None
                  THEN DictSet(device_delays, day,
                               [delay |-> Val(FreshDelay(rt, day)),
                                timestamp |-> RealTimeOf(rt)])
                  ELSE device_delays
    IN  [k \in {x \in DOMAIN stored : x >= day} |-> stored[k]]

\* lines 262-272.  "delay_stats" is the very dict held in _delay_stats, so
\* the entry names it by its key and a reader sees its current content.
DataEntry(device, key, schedule, rt, day, stats_map, device_delays) ==
    [schedule |-> schedule,
     realtime |-> rt,
     device_info |-> device,
     latest_delay |-> FreshDelay(rt, day),
     last_delay_update |->
         IF FreshDelay(rt, day) # None THEN Some(RealTimeOf(rt)) ELSE None,
     stored_delay |->
         IF day \in DOMAIN device_delays THEN Some(device_delays[day]) ELSE None,
     delay_stats |-> key,
     last_known_delay |-> stats_map[key].last_delay,
     last_delay_date |-> stats_map[key].last_delay_date]

\* lines 278-288: the entry the per-device handler provides
ErrorEntry(device, key, day, stats_map, device_delays) ==
    [schedule |-> <<>>,
     realtime |-> None,
     device_info |-> device,
     latest_delay |-> None,
     last_delay_update |-> None,
     stored_delay |->
         IF day \in DOMAIN device_delays THEN Some(device_delays[day]) ELSE None,
     delay_stats |-> key,
     last_known_delay |-> stats_map[key].last_delay,
     last_delay_date |-> stats_map[key].last_delay_date]

\* lines 274-289: except Exception ... continue
HandleDeviceError(d, device, key) ==
    IF key \in DOMAIN delay_stats
    THEN DictSet(d, key, ErrorEntry(device, key, today, delay_stats,
                                    DictGet(latest_delays, key, EmptyDict)))
    ELSE d

(***************************************************************************)
(* Python call binding and exception classes.                              *)
(***************************************************************************)
\* api.py:137-142: the parameters of get_schedule_times after self
GetScheduleTimesParams == <<"halte_number", "line_number", "target_time">>

\* __init__.py:213-218: two positional arguments and two keywords
CallPositional == 2

CallKeywords == {"target_time", "entity_number"}

\* A call binds when every positional argument has a parameter and every
\* keyword names a parameter not already filled; otherwise TypeError.
CallBinds(params, npositional, keywords) ==
    /\ npositional <= Len(params)
    /\ \A k \in keywords :
          \E i \in (npositional + 1)..Len(params) : params[i] = k

ClientAcceptsCall ==
    CallBinds(GetScheduleTimesParams, CallPositional, CallKeywords)

\* a variant of ExceptExceptionCatches: a handler that catches BaseException
ExceptExceptionCatchesAll(exc) == TRUE

\* "except Exception" (lines 274 and 293): asyncio.CancelledError derives
\* from BaseException and passes through; TypeError, TimeoutError and the
\* client's errors are caught.
ExceptExceptionCatches(exc) == exc # "CancelledError"

\* a variant of CycleFailure: the failing cycle hands back the cached snapshot
\* when there is one
CycleFailureReturnsCached(cached) ==
    IF cached # None THEN "returned" ELSE "UpdateFailed"

\* lines 293-295: whatever leaves the timeout block is re-raised as
\* UpdateFailed, whether or not an earlier cycle returned data.
CycleFailure(cached) == "UpdateFailed"

(***************************************************************************)
(* _async_update_data (__init__.py:189-295), one action per await.         *)
(***************************************************************************)
\* no call of _update_delay_stats yet
NoCall == [device_id |-> None, delay |-> None, had_realtime |-> FALSE,
           before |-> None, today |-> 0]

NoStep == [kind |-> "none", key |-> None, realtime |-> None]

NoLog == [computed |-> EmptyDict, failed |-> {}, visited |-> {},
          before |-> None, stats_before |-> EmptyDict, timed_out |-> FALSE]

NextDevice ==
    /\ idx' = idx + 1
    /\ pc' = "device"
    /\ schedule_times' = <<>>

\* a variant of AfterDeviceError: the handler leaves the loop
AfterDeviceErrorBreak ==
    /\ idx' = Len(Devices) + 1
    /\ pc' = "device"
    /\ schedule_times' = <<>>

\* line 289: continue
AfterDeviceError == NextDevice

\* Lines 191-200: the first await loads the store while _delay_stats is
\* empty, then the timeout block is entered.
StartCycle ==
    /\ pc = "idle"
    /\ ncycles < MaxCycles
    /\ ncycles' = ncycles + 1
    /\ LET load == delay_stats = EmptyDict /\ store # None
       IN  /\ delay_stats' = IF load THEN Val(store).delay_stats ELSE delay_stats
           /\ latest_delays' =
                  IF load THEN Val(store).latest_delays ELSE latest_delays
    /\ data' = EmptyDict
    /\ today' = DateOf(now)
    /\ idx' = 1
    /\ elapsed' = 0
    /\ device_id' = None
    /\ schedule_times' = <<>>
    /\ pc' = "device"
    /\ outcome' = "running"
    /\ step' = [NoStep EXCEPT !.kind = "start"]
    /\ log' = [NoLog EXCEPT !.before = coordinator_data,
                            !.stats_before = delay_stats']
    /\ call' = NoCall
    /\ UNCHANGED <<confVars, hostVars, clockVars, store, save_tasks, ncalls, rises,
                   coordinator_data,
                   apiVars, rtVars, session>>

\* Lines 202-218: the device's fields are read, device_id is bound, the
\* device's dict of latest delays is created, and get_schedule_times is
\* called.  A call that does not bind raises TypeError on the spot, which
\* the per-device handler catches.
BeginDevice(binds) ==
    /\ pc = "device"
    /\ idx <= Len(Devices)
    /\ idx \notin malformed
    /\ LET device == Devices[idx]
           key == DeviceId(device)
       IN  /\ device_id' = Some(key)
           /\ latest_delays' =
                  IF key \in DOMAIN latest_delays THEN latest_delays
                  ELSE DictSet(latest_delays, key, EmptyDict)
           /\ IF binds
              THEN /\ pc' = "await_schedule"
                   /\ step' = [kind |-> "called", key |-> Some(key),
                               realtime |-> None]
                   /\ log' = [log EXCEPT !.visited = @ \cup {key}]
                   /\ UNCHANGED <<idx, data, schedule_times>>
              ELSE /\ ExceptExceptionCatches("TypeError")
                   /\ data' = HandleDeviceError(data, device, key)
                   /\ step' = [kind |-> "rejected", key |-> Some(key),
                               realtime |-> None]
                   /\ log' = [log EXCEPT !.visited = @ \cup {key},
                                         !.failed = @ \cup {key}]
                   /\ AfterDeviceError
    /\ UNCHANGED <<confVars, hostVars, clockVars, delay_stats, store, save_tasks, statVars, today,
                   elapsed, outcome, coordinator_data, ncycles, apiVars, rtVars, session>>

\* the integration's own client: the call of lines 213-218 against api.py:137
PollClient == BeginDevice(ClientAcceptsCall)

\* lines 225-229: the scheduled time get_realtime_data is asked for is the
\* device's configured timestamp
RealtimeScheduledTime(device) == device.scheduled_time

\* Lines 204-208 raise KeyError or IndexError on a malformed record, before
\* device_id is assigned in this iteration.  The handler of line 274 names
\* device_id: it is the key of the iteration before, or unbound in the first
\* iteration, where naming it raises UnboundLocalError out of the handler
\* and the cycle ends at lines 293-295.
DeviceKeyFails ==
    /\ pc = "device"
    /\ idx <= Len(Devices)
    /\ idx \in malformed
    /\ ExceptExceptionCatches("KeyError")
    /\ IF device_id = None
       THEN /\ ExceptExceptionCatches("UnboundLocalError")
            /\ outcome' = CycleFailure(coordinator_data)
            /\ pc' = "idle"
            /\ idx' = 1
            /\ data' = EmptyDict
            /\ schedule_times' = <<>>
       ELSE /\ data' = HandleDeviceError(data, Devices[idx], Val(device_id))
            /\ AfterDeviceError
            /\ UNCHANGED outcome
    /\ step' = [kind |-> "keyfailed", key |-> device_id, realtime |-> None]
    /\ UNCHANGED <<confVars, hostVars, clockVars, coordVars, statVars, device_id,
                   today, elapsed, coordinator_data, ncycles, log, apiVars,
                   rtVars, session>>

\* a client whose get_schedule_times takes the call
PollAccepted == BeginDevice(TRUE)

\* Line 213 resumes: get_schedule_times has raised, or returned a list.
ScheduleReturns ==
    /\ pc = "await_schedule"
    /\ \E dur \in Durations :
          /\ elapsed + dur < CycleTimeout
          /\ elapsed' = elapsed + dur
    /\ LET device == Devices[idx]
           key == DeviceId(device)
       IN  \E r \in ScheduleOutcomes(device, now) :
              \/ /\ r.raised
                 /\ ExceptExceptionCatches("ClientError")
                 /\ data' = HandleDeviceError(data, device, key)
                 /\ step' = [kind |-> "raised", key |-> Some(key),
                             realtime |-> None]
                 /\ log' = [log EXCEPT !.failed = @ \cup {key}]
                 /\ AfterDeviceError
              \/ /\ ~r.raised
                 /\ r.value = <<>>
                 /\ step' = [kind |-> "empty", key |-> Some(key),
                             realtime |-> None]
                 /\ NextDevice
                 /\ UNCHANGED <<data, log>>
              \/ /\ ~r.raised
                 /\ r.value # <<>>
                 /\ schedule_times' = r.value
                 /\ pc' = "await_realtime"
                 /\ step' = [kind |-> "scheduled", key |-> Some(key),
                             realtime |-> None]
                 /\ UNCHANGED <<idx, data, log>>
    /\ UNCHANGED <<confVars, hostVars, clockVars, coordVars, statVars, device_id, today, outcome,
                   coordinator_data, ncycles, apiVars, rtVars, session>>

\* Line 225 resumes with the result of get_realtime_data, and lines 231-272
\* run to the end of the iteration.  Both timestamps of an observation come
\* from one upstream record and are written the same way.
RealtimeReturns ==
    /\ pc = "await_realtime"
    /\ \E dur \in Durations :
          /\ elapsed + dur < CycleTimeout
          /\ elapsed' = elapsed + dur
    /\ LET device == Devices[idx]
           key == DeviceId(device)
       IN  \E rt \in RealtimeOutcomes(device, now) :
              LET delay == FreshDelay(rt, today)
                  stats_map == update_delay_stats(delay_stats, key, delay,
                                                  HasRealtime(rt), DateOf(now))
                  device_delays == DeviceDelaysAfter(latest_delays[key], rt, today)
                  entry == DataEntry(device, key, schedule_times, rt, today,
                                     stats_map, device_delays)
              IN  /\ delay_stats' = stats_map
                  /\ call' = [device_id |-> key, delay |-> delay,
                              had_realtime |-> HasRealtime(rt),
                              before |-> Some(delay_stats),
                              today |-> DateOf(now)]
                  /\ rises' = RisesAfter(rises, delay_stats, stats_map, key,
                                         HasRealtime(rt))
                  /\ save_tasks' = save_tasks + 1
                  /\ latest_delays' = [latest_delays EXCEPT ![key] = device_delays]
                  /\ data' = DictSet(data, key, entry)
                  /\ log' = [log EXCEPT !.computed = DictSet(@, key, entry)]
                  /\ step' = [kind |-> "processed", key |-> Some(key),
                              realtime |-> rt]
    /\ NextDevice
    /\ UNCHANGED <<confVars, hostVars, clockVars, store, ncalls, device_id, today, outcome,
                   coordinator_data, ncycles, apiVars, rtVars, session>>

\* The 30 seconds of line 196 run out while a request is awaited: the task
\* is cancelled at that await.  CancelledError passes the handlers of the
\* client and of line 274, the timeout block turns it into TimeoutError, and
\* line 293 catches that and raises UpdateFailed.
CycleTimeoutFires ==
    /\ pc \in {"await_schedule", "await_realtime"}
    /\ \E dur \in Durations : elapsed + dur >= CycleTimeout
    /\ LET device == Devices[idx]
           key == DeviceId(device)
       IN  IF ExceptExceptionCatches("CancelledError")
           THEN /\ data' = HandleDeviceError(data, device, key)
                /\ AfterDeviceError
                /\ UNCHANGED <<elapsed, outcome>>
           ELSE /\ ExceptExceptionCatches("TimeoutError")
                /\ outcome' = CycleFailure(coordinator_data)
                /\ pc' = "idle"
                /\ elapsed' = 0
                /\ idx' = 1
                /\ data' = EmptyDict
                /\ schedule_times' = <<>>
    /\ step' = [kind |-> "timeout", key |-> device_id, realtime |-> None]
    /\ log' = [log EXCEPT !.timed_out = TRUE]
    /\ UNCHANGED <<confVars, hostVars, clockVars, coordVars, statVars, device_id, today,
                   coordinator_data, ncycles, apiVars, rtVars, session>>

\* Line 291: the loop is over and data is returned; the host keeps it as
\* coordinator.data.  The locals of the call are gone.
FinishCycle ==
    /\ pc = "device"
    /\ idx > Len(Devices)
    /\ pc' = "idle"
    /\ outcome' = "returned"
    /\ coordinator_data' = Some(data)
    /\ step' = [kind |-> "returned", key |-> None, realtime |-> None]
    /\ idx' = 1
    /\ data' = EmptyDict
    /\ elapsed' = 0
    /\ UNCHANGED <<confVars, hostVars, clockVars, coordVars, statVars, device_id, today,
                   schedule_times, ncycles, log, apiVars, rtVars, session>>

\* datetime.now() moves on; midnight may pass, between two cycles or while
\* the realtime lookup of a device is awaited.
Tick ==
    /\ pc \in {"idle", "await_realtime"}
    /\ DateOf(now) < MaxDay
    /\ now' = now + DaySeconds
    /\ UNCHANGED <<confVars, hostVars, coordVars, statVars, cycleVars, apiVars, rtVars,
                   session>>

(***************************************************************************)
(* DeLijnSensor.native_value (sensor.py:120-244), read from                *)
(* coordinator.data at the time of the clock.                              *)
(***************************************************************************)
\* lines 123-136: the device's entry of the snapshot, or None
SensorDeviceData(device) ==
    IF coordinator_data = None \/ Val(coordinator_data) = EmptyDict THEN None
    ELSE IF DeviceId(device) \notin DOMAIN Val(coordinator_data) THEN None
    ELSE Some(Val(coordinator_data)[DeviceId(device)])

\* lines 138-142: the first schedule entry at the device's HH:MM, or None
SensorSchedule(device) ==
    IF SensorDeviceData(device) = None THEN None
    ELSE LET sched == Val(SensorDeviceData(device)).schedule
             hits == {i \in DOMAIN sched : sched[i].time = TargetTime(device)}
         IN  IF hits = {} THEN None
             ELSE Some(sched[CHOOSE i \in hits : \A j \in hits : i <= j])

\* a variant of LatestDelayValue: the stored delay is shown whatever its date
LatestDelayValueAnyDate(entry, clock) ==
    IF /\ entry.realtime # None
       /\ Val(entry.realtime).realtime_time # None
       /\ entry.latest_delay # None
    THEN entry.latest_delay
    ELSE entry.last_known_delay

\* lines 221-239
LatestDelayValue(entry, clock) ==
    IF /\ entry.realtime # None
       /\ Val(entry.realtime).realtime_time # None
       /\ entry.latest_delay # None
    THEN entry.latest_delay
    ELSE IF /\ entry.last_known_delay # None
            /\ entry.last_delay_date # None
            /\ Val(entry.last_delay_date) = DateOf(clock)
    THEN entry.last_known_delay
    ELSE None

\* lines 159-161: the entry's "delay_stats" is the dict in _delay_stats
DelayCounterValue(entry) ==
    Some(DictGet(delay_stats, entry.delay_stats, ZeroStats).delay_counter)

\* lines 147-149: the schedule entry's time of day
ScheduledTimeValue(schedule) == Some(HmText(schedule.timestamp))

\* lines 163-175: the predicted time of day, else the scheduled one
ExpectedTimeValue(entry, schedule) ==
    IF entry.realtime # None /\ Val(entry.realtime).realtime_time # None
    THEN Some(HmText(Val(Val(entry.realtime).realtime_time)))
    ELSE Some(HmText(schedule.timestamp))

\* line 195: int(): the fractional part is dropped, towards zero
TruncDiv(n, d) == IF n >= 0 THEN n \div d ELSE 0 - ((0 - n) \div d)

\* a text is the sequence of its characters
Digit(n) == <<"0", "1", "2", "3", "4", "5", "6", "7", "8", "9">>[n + 1]

RECURSIVE Decimal(_)
\* "{n}" of an integer
Decimal(n) ==
    IF n < 0 THEN <<"-">> \o Decimal(0 - n)
    ELSE IF n < 10 THEN <<Digit(n)>>
    ELSE Decimal(n \div 10) \o <<Digit(n % 10)>>

\* "{n:02d}": zero-padded to two characters, the sign included
Pad2(n) ==
    IF n < 0 THEN Decimal(n)
    ELSE IF n < 10 THEN <<"0">> \o Decimal(n)
    ELSE Decimal(n)

\* a variant of WaitingText: a full day is written before a dot
WaitingTextDotted(total_minutes) ==
    LET days == total_minutes \div (24 * 60)
        remaining_minutes == total_minutes % (24 * 60)
        hours == remaining_minutes \div 60
        mins == remaining_minutes % 60
    IN  IF days > 0
        THEN Decimal(days) \o <<".">> \o Pad2(hours) \o <<":">> \o Pad2(mins)
        ELSE Pad2(hours) \o <<":">> \o Pad2(mins)

\* lines 196-204: "{days} days HH:MM" from one day on, "HH:MM" below
WaitingText(total_minutes) ==
    LET days == total_minutes \div (24 * 60)
        remaining_minutes == total_minutes % (24 * 60)
        hours == remaining_minutes \div 60
        mins == remaining_minutes % 60
    IN  IF days > 0
        THEN Decimal(days) \o <<" ", "d", "a", "y", "s", " ">>
             \o Pad2(hours) \o <<":">> \o Pad2(mins)
        ELSE Pad2(hours) \o <<":">> \o Pad2(mins)

\* a variant of AdvanceDays: the timestamp is taken as it is
AdvanceNever(target_time, clock) == target_time

RECURSIVE AdvanceDays(_, _)
\* lines 191-192: while target_time < now: target_time += timedelta(days=1)
AdvanceDays(target_time, clock) ==
    IF target_time < clock
    THEN AdvanceDays(target_time + DaySeconds, clock)
    ELSE target_time

\* lines 178-195: how the countdown ends up.  A timestamp written with Z
\* parses to an aware datetime, and comparing it with the naive now raises
\* TypeError.
WaitingMinutes(entry, schedule, clock) ==
    IF entry.realtime # None /\ Val(entry.realtime).realtime_time # None
    THEN LET target_time == Val(Val(entry.realtime).realtime_time)
         IN  IF target_time.z THEN [kind |-> "raised", minutes |-> 0]
             ELSE IF target_time.sec < clock
             THEN [kind |-> "passed", minutes |-> 0]
             ELSE [kind |-> "minutes",
                   minutes |-> TruncDiv(target_time.sec - clock, 60)]
    ELSE IF schedule.timestamp.z THEN [kind |-> "raised", minutes |-> 0]
    ELSE [kind |-> "minutes",
          minutes |->
              TruncDiv(AdvanceDays(schedule.timestamp.sec, clock) - clock, 60)]

\* lines 177-204, and 242-244 for the TypeError
WaitingTimeValue(entry, schedule, clock) ==
    LET w == WaitingMinutes(entry, schedule, clock)
    IN  IF w.kind = "raised" THEN None
        ELSE IF w.kind = "passed" THEN Some(<<"0", "0", ":", "0", "0">>)
        ELSE Some(WaitingText(w.minutes))

\* lines 206-219: recomputed from the observation, whatever its date.  An
\* aware minus a naive datetime raises TypeError (lines 242-244).
DelayValue(entry) ==
    IF HasRealtime(entry.realtime)
    THEN IF RealTimeOf(entry.realtime).z # SchedTimeOf(entry.realtime).z
         THEN None
         ELSE Some(RoundDiv(RealTimeOf(entry.realtime).sec
                            - SchedTimeOf(entry.realtime).sec, 60))
    ELSE None

\* lines 254-255 and 274-283: the bucket attributes of the delay_counter
\* sensor, read through the entry's "delay_stats"
DelayCounterAttributes(device) ==
    IF coordinator_data = None \/ Val(coordinator_data) = EmptyDict THEN None
    ELSE LET stats ==
                 IF SensorDeviceData(device) = None THEN ZeroStats
                 ELSE DictGet(delay_stats,
                              Val(SensorDeviceData(device)).delay_stats,
                              ZeroStats)
         IN  Some([b \in Buckets |-> stats[b]])

\* The value of the sensor of the given key: None, or Some(value).
native_value(sensor_key, device) ==
    IF SensorSchedule(device) = None THEN None
    ELSE LET entry == Val(SensorDeviceData(device))
             schedule == Val(SensorSchedule(device))
         IN  IF sensor_key = "scheduled_time" THEN ScheduledTimeValue(schedule)
             ELSE IF sensor_key = "delay_counter" THEN DelayCounterValue(entry)
             ELSE IF sensor_key = "expected_time"
             THEN ExpectedTimeValue(entry, schedule)
             ELSE IF sensor_key = "waiting_time"
             THEN WaitingTimeValue(entry, schedule, now)
             ELSE IF sensor_key = "delay" THEN DelayValue(entry)
             ELSE IF sensor_key = "latest_delay"
             THEN LatestDelayValue(entry, now)
             ELSE None

(***************************************************************************)
(* The API client: get_schedule_times (api.py:137-299).  Each action is    *)
(* one upstream request and the code that runs on its answer, up to the    *)
(* next request or the end of the call.                                    *)
(***************************************************************************)
\* a variant of LookaheadDays: the loop runs once more
LookaheadOffByOne == 7 + 1

\* range(7), api.py:214
LookaheadDays == 7

\* entities["entiteiten"]: the entity numbers upstream lists
Entities == <<"e1", "e2">>

\* the lines that stop at the halte
Lines == {"L1", "L2"}

\* the times of day, in minutes, at which they stop
FeedMinutes == {EightOClock \div 60, EightOClock \div 60 + 30}

\* A doorkomst of a schedule feed of the given day: its line and its
\* dienstregelingTijdstip, which may be missing (api.py:241-243).
Doorkomsten(day) ==
    [lijnnummer : Lines,
     dienstregelingTijdstip :
        {None} \cup { Some(Timestamp(day * DaySeconds + 60 * m, z)) :
                        m \in FeedMinutes, z \in BOOLEAN }]

SeqsUpTo(S, n) == UNION { [1..k -> S] : k \in 0..n }

\* data["halteDoorkomsten"][0]["doorkomsten"] of the feed of a day
Feeds(day) == SeqsUpTo(Doorkomsten(day), MaxFeed)

\* entity: the entity a stop lookup of the session found the stop in;
\* reprobed: whether a stop lookup was issued after one had found it
NoSession == [entity |-> None, reprobed |-> FALSE]

\* a stop lookup is issued; found is the entity it succeeds for, or None
AfterLookup(found) ==
    [entity |-> IF found = None THEN session.entity ELSE found,
     reprobed |-> session.reprobed \/ session.entity # None]

\* a variant of ProbeGoesOn: a failed stop lookup ends the probing
ProbeEndsAtFailure(entity_i) == FALSE

\* api.py:153-161 and 361-367: the loop goes on to the next entity
ProbeGoesOn(entity_i) == entity_i < Len(Entities)

NoArgs == [halte_number |-> "", line_number |-> "", target_time |-> None]

\* entity_i: the entity being probed; current_date: days added to today;
\* queried: for each dated query, whether the feed it got holds a departure
\* of the line at the target hour and minute; fault: why the call raised.
NoLocals == [entity_i |-> 0, entity_number |-> None,
             current_doorkomsten |-> None, all_doorkomsten |-> <<>>,
             current_date |-> 0, queried |-> <<>>, fault |-> "none"]

NoResult == [status |-> "none", value |-> <<>>]

\* the same for get_realtime_data (api.py:349-403)
NoRtArgs == [halte_number |-> "", line_number |-> "", scheduled_time |-> None]

\* entity_i: the entity being probed; halte: whether a stop lookup has
\* found the stop; feed: the real-time feed received; fault: whether a
\* request ended the call
NoRtLocals == [entity_i |-> 0, halte |-> FALSE, feed |-> None,
               fault |-> "none"]

NoRtResult == [status |-> "none", value |-> None]

Request(kind, entity, date) == [kind |-> kind, entity |-> entity, date |-> date]

\* api.py:187-190: the doorkomsten of the requested line
OfLine(feed, line_number) ==
    SelectSeq(feed, LAMBDA d : d.lijnnummer = line_number)

\* api.py:206-212: target_today < current_time
TargetPassedAt(target, clock) ==
    DateOf(clock) * DaySeconds + 60 * target < clock

\* api.py:224
IsTarget(doorkomst, target) ==
    HmText(Val(doorkomst.dienstregelingTijdstip)) = target

\* api.py:220-226: the first doorkomst at the target hour and minute; reading
\* the timestamp of a doorkomst that has none raises KeyError.
RECURSIVE ScanForTarget(_, _)
ScanForTarget(future_doorkomsten, target) ==
    IF future_doorkomsten = <<>>
    THEN [raised |-> FALSE, found |-> <<>>]
    ELSE LET doorkomst == Head(future_doorkomsten)
         IN  IF doorkomst.dienstregelingTijdstip = None
             THEN [raised |-> TRUE, found |-> <<>>]
             ELSE IF IsTarget(doorkomst, target)
             THEN [raised |-> FALSE, found |-> <<doorkomst>>]
             ELSE ScanForTarget(Tail(future_doorkomsten), target)

\* api.py:240-263: a doorkomst without timestamp is skipped; so is one whose
\* timestamp carries a zone, as subtracting the naive datetime.now() from it
\* raises TypeError, which line 262 catches.
RECURSIVE ProcessedTimes(_, _)
ProcessedTimes(all_doorkomsten, clock) ==
    IF all_doorkomsten = <<>> THEN <<>>
    ELSE LET ts == Head(all_doorkomsten).dienstregelingTijdstip
             rest == ProcessedTimes(Tail(all_doorkomsten), clock)
         IN  IF ts = None THEN rest
             ELSE IF Val(ts).z THEN rest
             ELSE <<ScheduleEntry(Val(ts).sec, Val(ts).z, clock)>> \o rest

\* sorted(..., key=waiting_time): stable
RECURSIVE InsertByWaiting(_, _)
InsertByWaiting(entry, sorted) ==
    IF sorted = <<>> THEN <<entry>>
    ELSE IF Head(sorted).waiting_time <= entry.waiting_time
    THEN <<Head(sorted)>> \o InsertByWaiting(entry, Tail(sorted))
    ELSE <<entry>> \o sorted

RECURSIVE SortedByWaiting(_)
SortedByWaiting(entries) ==
    IF entries = <<>> THEN <<>>
    ELSE InsertByWaiting(entries[Len(entries)],
                         SortedByWaiting(SubSeq(entries, 1, Len(entries) - 1)))

\* api.py:236-265
ReturnProcessed(all_doorkomsten) ==
    /\ api_pc' = "idle"
    /\ api_result' = [status |-> "returned",
                      value |-> SortedByWaiting(ProcessedTimes(all_doorkomsten, now))]

\* api.py:165 and 173
ReturnEmpty ==
    /\ api_pc' = "idle"
    /\ api_result' = [status |-> "returned", value |-> <<>>]

\* a variant of ReRaise: the error is logged and [] is returned
FailSoftInsteadOfRaise ==
    /\ api_pc' = "idle"
    /\ api_result' = [status |-> "returned", value |-> <<>>]

\* api.py:297-299
ReRaise ==
    /\ api_pc' = "idle"
    /\ api_result' = [status |-> "raised", value |-> <<>>]

\* api.py:137-147
CallGetScheduleTimes ==
    /\ api_pc = "idle"
    /\ rt_pc = "idle"
    /\ \E target \in {None, Some(EightOClock \div 60)} :
        api_args' = [halte_number |-> "h1", line_number |-> "L1",
                     target_time |-> target]
    /\ api_pc' = "entiteiten"
    /\ api_loc' = NoLocals
    /\ api_result' = NoResult
    /\ requests' = <<>>
    /\ rt_args' = NoRtArgs
    /\ rt_loc' = NoRtLocals
    /\ rt_result' = NoRtResult
    /\ UNCHANGED <<confVars, hostVars, clockVars, coordVars, statVars, cycleVars, rt_pc, session>>

\* api.py:149-151
EntitiesRespond ==
    /\ api_pc = "entiteiten"
    /\ requests' = Append(requests, Request("entiteiten", None, None))
    /\ \/ /\ api_loc' = [api_loc EXCEPT !.fault = "request"]
          /\ ReRaise
       \/ /\ api_loc' = [api_loc EXCEPT !.entity_i = 1]
          /\ api_pc' = "haltes"
          /\ UNCHANGED api_result
    /\ UNCHANGED <<confVars, hostVars, clockVars, coordVars, statVars, cycleVars, rtVars, session, api_args>>

\* api.py:153-173
HalteResponds ==
    /\ api_pc = "haltes"
    /\ requests' = Append(requests,
                          Request("haltes", Some(Entities[api_loc.entity_i]), None))
    /\ \/ \* the request fails, or the response is empty: next entity
          /\ session' = AfterLookup(None)
          /\ IF ProbeGoesOn(api_loc.entity_i)
             THEN /\ api_loc' = [api_loc EXCEPT !.entity_i = @ + 1]
                  /\ UNCHANGED <<api_pc, api_result>>
             ELSE /\ ReturnEmpty
                  /\ UNCHANGED api_loc
       \/ \* the halte is found
          \E has_link \in BOOLEAN :
            /\ session' = AfterLookup(Some(Entities[api_loc.entity_i]))
            /\ api_loc' = [api_loc EXCEPT
                             !.entity_number = Some(Entities[api_loc.entity_i])]
            /\ IF has_link
               THEN /\ api_pc' = "lijnen"
                    /\ UNCHANGED api_result
               ELSE ReturnEmpty
    /\ UNCHANGED <<confVars, hostVars, clockVars, coordVars, statVars, cycleVars, rtVars, api_args>>

\* api.py:176 and 301-316: line details, {} if the request fails
LineDetailsRespond ==
    /\ api_pc = "lijnen"
    /\ requests' = Append(requests,
                          Request("lijnen", api_loc.entity_number, None))
    /\ api_pc' = "today"
    /\ UNCHANGED <<confVars, hostVars, clockVars, coordVars, statVars, cycleVars, rtVars, session, api_args, api_loc,
                   api_result>>

\* api.py:194-212 and 230-265
TodayResponds ==
    /\ api_pc = "today"
    /\ requests' = Append(requests, Request("dienstregelingen", None, None))
    /\ \/ /\ api_loc' = [api_loc EXCEPT !.fault = "request"]
          /\ ReRaise
       \/ \E feed \in Feeds(DateOf(now)) :
            LET current_doorkomsten == OfLine(feed, api_args.line_number)
            IN  IF /\ api_args.target_time # None
                   /\ TargetPassedAt(Val(api_args.target_time), now)
                THEN /\ api_loc' = [api_loc EXCEPT
                            !.current_doorkomsten = Some(current_doorkomsten)]
                     /\ api_pc' = "lookahead"
                     /\ UNCHANGED api_result
                ELSE /\ api_loc' = [api_loc EXCEPT
                            !.current_doorkomsten = Some(current_doorkomsten),
                            !.all_doorkomsten = current_doorkomsten]
                     /\ ReturnProcessed(current_doorkomsten)
    /\ UNCHANGED <<confVars, hostVars, clockVars, coordVars, statVars, cycleVars, rtVars, session, api_args>>

\* api.py:214-229, one iteration of the loop, and 236-265 when it ends
DatedResponds ==
    /\ api_pc = "lookahead"
    /\ api_loc.current_date < LookaheadDays
    /\ LET current_date == api_loc.current_date + 1
           date == DateOf(now) + current_date
           target == Val(api_args.target_time)
       IN  /\ requests' = Append(requests,
                                 Request("dienstregelingen", None, Some(date)))
           /\ \/ /\ api_loc' = [api_loc EXCEPT !.current_date = current_date,
                                               !.fault = "request"]
                 /\ ReRaise
              \/ \E feed \in Feeds(date) :
                   LET future_doorkomsten == OfLine(feed, api_args.line_number)
                       scan == ScanForTarget(future_doorkomsten, target)
                       holds == \E i \in DOMAIN future_doorkomsten :
                                  /\ future_doorkomsten[i].dienstregelingTijdstip # None
                                  /\ IsTarget(future_doorkomsten[i], target)
                       seen == [api_loc EXCEPT !.current_date = current_date,
                                               !.queried = Append(@, holds)]
                   IN  IF scan.raised
                       THEN /\ api_loc' = [seen EXCEPT !.fault = "timestamp"]
                            /\ ReRaise
                       ELSE IF scan.found # <<>>
                       THEN /\ api_loc' = [seen EXCEPT !.all_doorkomsten = scan.found]
                            /\ ReturnProcessed(scan.found)
                       ELSE IF current_date < LookaheadDays
                       THEN /\ api_loc' = seen
                            /\ UNCHANGED <<api_pc, api_result>>
                       ELSE /\ api_loc' = seen
                            /\ ReturnProcessed(<<>>)
    /\ UNCHANGED <<confVars, hostVars, clockVars, coordVars, statVars, cycleVars, rtVars, session, api_args>>

(***************************************************************************)
(* The API client: get_realtime_data (api.py:349-403), one upstream        *)
(* request per action.  {} is None here.                                   *)
(***************************************************************************)
\* An observation of the real-time feed of the given day: its line, its
\* scheduled timestamp and, when there is a prediction, the observed one.
Observations(day) ==
    { [lijnnummer |-> d.lijnnummer,
       dienstregelingTijdstip |-> d.dienstregelingTijdstip,
       real_timeTijdstip |-> rt] :
        d \in Doorkomsten(day),
        rt \in {None} \cup {Some(off) : off \in RealtimeOffsets} }

\* realtime_data["halteDoorkomsten"][0]["doorkomsten"]
RealtimeFeeds(day) == SeqsUpTo(Observations(day), MaxFeed)

\* a variant of RtMatches: the scheduled times are compared as times of day
RtMatchesByMinute(doorkomst, line_number, scheduled_time) ==
    /\ doorkomst.lijnnummer = line_number
    /\ doorkomst.dienstregelingTijdstip # None
    /\ HmText(Val(doorkomst.dienstregelingTijdstip)) = HmText(scheduled_time)

\* api.py:390-391: the line and the timestamp string are those asked for
RtMatches(doorkomst, line_number, scheduled_time) ==
    /\ doorkomst.lijnnummer = line_number
    /\ doorkomst.dienstregelingTijdstip = Some(scheduled_time)

\* api.py:393-399: the record returned for a matching observation
RtRecord(doorkomst) ==
    [dienstregelingTijdstip |-> doorkomst.dienstregelingTijdstip,
     realtime_time |->
        IF doorkomst.real_timeTijdstip = None THEN None
        ELSE Some(Timestamp(Val(doorkomst.dienstregelingTijdstip).sec
                               + Val(doorkomst.real_timeTijdstip),
                            Val(doorkomst.dienstregelingTijdstip).z))]

\* api.py:386-403: the first matching observation, or {}
RECURSIVE RtScan(_, _, _)
RtScan(doorkomsten, line_number, scheduled_time) ==
    IF doorkomsten = <<>> THEN None
    ELSE IF RtMatches(Head(doorkomsten), line_number, scheduled_time)
    THEN Some(RtRecord(Head(doorkomsten)))
    ELSE RtScan(Tail(doorkomsten), line_number, scheduled_time)

\* api.py:371, 380 and 403: return {}
RtReturnEmpty ==
    /\ rt_pc' = "idle"
    /\ rt_result' = [status |-> "returned", value |-> None]

\* api.py:400-403: the error is logged and {} is returned
RtFailSoft ==
    /\ rt_pc' = "idle"
    /\ rt_result' = [status |-> "returned", value |-> None]

\* api.py:349-356
CallGetRealtimeData ==
    /\ rt_pc = "idle"
    /\ api_pc = "idle"
    /\ \E line \in Lines, z \in BOOLEAN :
        rt_args' = [halte_number |-> "h1", line_number |-> line,
                    scheduled_time |->
                        Some(Timestamp(DateOf(now) * DaySeconds + EightOClock, z))]
    /\ rt_pc' = "entiteiten"
    /\ rt_loc' = NoRtLocals
    /\ rt_result' = NoRtResult
    /\ requests' = <<>>
    /\ api_args' = NoArgs
    /\ api_loc' = NoLocals
    /\ api_result' = NoResult
    /\ UNCHANGED <<confVars, hostVars, clockVars, coordVars, statVars, cycleVars, session, api_pc>>

\* api.py:358-359
RtEntitiesRespond ==
    /\ rt_pc = "entiteiten"
    /\ requests' = Append(requests, Request("entiteiten", None, None))
    /\ \/ /\ rt_loc' = [rt_loc EXCEPT !.fault = "request"]
          /\ RtFailSoft
       \/ /\ rt_loc' = [rt_loc EXCEPT !.entity_i = 1]
          /\ rt_pc' = "haltes"
          /\ UNCHANGED rt_result
    /\ UNCHANGED <<confVars, hostVars, clockVars, coordVars, statVars, cycleVars, session, api_pc,
                   api_args, api_loc, api_result, rt_args>>

\* api.py:361-380
RtHalteResponds ==
    /\ rt_pc = "haltes"
    /\ requests' = Append(requests,
                          Request("haltes", Some(Entities[rt_loc.entity_i]), None))
    /\ \/ \* the request fails, or the response is empty: next entity
          /\ session' = AfterLookup(None)
          /\ IF ProbeGoesOn(rt_loc.entity_i)
             THEN /\ rt_loc' = [rt_loc EXCEPT !.entity_i = @ + 1]
                  /\ UNCHANGED <<rt_pc, rt_result>>
             ELSE /\ RtReturnEmpty
                  /\ UNCHANGED rt_loc
       \/ \* the halte is found
          \E has_link \in BOOLEAN :
            /\ session' = AfterLookup(Some(Entities[rt_loc.entity_i]))
            /\ rt_loc' = [rt_loc EXCEPT !.halte = TRUE]
            /\ IF has_link
               THEN /\ rt_pc' = "real-time"
                    /\ UNCHANGED rt_result
               ELSE RtReturnEmpty
    /\ UNCHANGED <<confVars, hostVars, clockVars, coordVars, statVars, cycleVars, api_pc,
                   api_args, api_loc, api_result, rt_args>>

\* api.py:382-403
RtFeedResponds ==
    /\ rt_pc = "real-time"
    /\ requests' = Append(requests, Request("real-time", None, None))
    /\ \/ /\ rt_loc' = [rt_loc EXCEPT !.fault = "request"]
          /\ RtFailSoft
       \/ \E feed \in RealtimeFeeds(DateOf(now)) :
            /\ rt_loc' = [rt_loc EXCEPT !.feed = Some(feed)]
            /\ rt_pc' = "idle"
            /\ rt_result' =
                 [status |-> "returned",
                  value |-> RtScan(feed, rt_args.line_number,
                                   Val(rt_args.scheduled_time))]
    /\ UNCHANGED <<confVars, hostVars, clockVars, coordVars, statVars, cycleVars, session, api_pc,
                   api_args, api_loc, api_result, rt_args>>

(***************************************************************************)
(* Initial states.                                                         *)
(***************************************************************************)
\* the clock starts at 07:00:00 of day 0
SevenOClock == 7 * 60 * 60

\* nothing polls
CycleIdle ==
    /\ pc = "idle"
    /\ idx = 1
    /\ data = EmptyDict
    /\ device_id = None
    /\ today = 0
    /\ schedule_times = <<>>
    /\ elapsed = 0
    /\ outcome = "none"
    /\ coordinator_data = None
    /\ ncycles = 0
    /\ step = NoStep
    /\ log = NoLog

\* What the Store may hold when the integration starts: nothing, or the maps
\* an earlier run saved (here: some devices were 4 minutes late on some day
\* and have lost their realtime data twice).
StoredAtStart ==
    {None} \cup
    { Some([delay_stats |->
                [k \in keys |->
                    [ZeroStats EXCEPT !.delay_counter = 2,
                                      !.low_delay = 1,
                                      !.last_delay = Some(4),
                                      !.last_delay_date = Some(d)]],
            latest_delays |-> EmptyDict,
            last_update_time |-> EmptyDict]) :
        keys \in (SUBSET DeviceIds) \ {{}}, d \in 0..MaxDay }

\* no sensor has written its state yet
NoShown == [key |-> "none", device |-> 0, value |-> None, at |-> 0]

HostIdle == shown = NoShown

\* every configured record has its fields (config_flow.py:176-190)
WellFormed == malformed = {}

\* no call of the client is under way
ApiIdle ==
    /\ api_pc = "idle"
    /\ api_args = NoArgs
    /\ api_loc = NoLocals
    /\ api_result = NoResult
    /\ requests = <<>>
    /\ rt_pc = "idle"
    /\ rt_args = NoRtArgs
    /\ rt_loc = NoRtLocals
    /\ rt_result = NoRtResult
    /\ session = NoSession

InitCoordinator ==
    /\ now = SevenOClock
    /\ delay_stats = EmptyDict
    /\ latest_delays = EmptyDict
    /\ store \in StoredAtStart
    /\ save_tasks = 0
    /\ call = NoCall
    /\ ncalls = 0
    /\ rises = EmptyDict
    /\ CycleIdle
    /\ ApiIdle
    /\ HostIdle
    /\ WellFormed

(***************************************************************************)
(* Spec: the integration as shipped.                                       *)
(***************************************************************************)
Init == InitCoordinator

Next == StartCycle \/ PollClient \/ FinishCycle \/ Tick

Spec == Init /\ [][Next]_vars

(***************************************************************************)
(* SpecApi: calls of get_schedule_times against an upstream that answers   *)
(* each request with a failure or with one of the bounded feeds.           *)
(***************************************************************************)
\* before, at, just after and an hour after the target time of 08:00
ApiClocks == {SevenOClock, EightOClock, EightOClock + 30, EightOClock + 60 * 60}

InitApi ==
    /\ now \in ApiClocks
    /\ delay_stats = EmptyDict
    /\ latest_delays = EmptyDict
    /\ store = None
    /\ save_tasks = 0
    /\ call = NoCall
    /\ ncalls = 0
    /\ rises = EmptyDict
    /\ CycleIdle
    /\ ApiIdle
    /\ HostIdle
    /\ WellFormed

NextApi ==
    \/ CallGetScheduleTimes
    \/ EntitiesRespond
    \/ HalteResponds
    \/ LineDetailsRespond
    \/ TodayResponds
    \/ DatedResponds

SpecApi == InitApi /\ [][NextApi]_vars

(***************************************************************************)
(* SpecRealtime: calls of get_realtime_data against an upstream that       *)
(* answers each request with a failure or with one of the bounded feeds.   *)
(***************************************************************************)
NextRealtime ==
    \/ CallGetRealtimeData
    \/ RtEntitiesRespond
    \/ RtHalteResponds
    \/ RtFeedResponds

SpecRealtime == InitApi /\ [][NextRealtime]_vars

(***************************************************************************)
(* SpecSession: calls of both entry points of one client, one after the    *)
(* other, as the polling routine makes them.                               *)
(***************************************************************************)
NextSession ==
    \/ CallGetScheduleTimes
    \/ EntitiesRespond
    \/ HalteResponds
    \/ LineDetailsRespond
    \/ TodayResponds
    \/ DatedResponds
    \/ CallGetRealtimeData
    \/ RtEntitiesRespond
    \/ RtHalteResponds
    \/ RtFeedResponds

SpecSession == InitApi /\ [][NextSession]_vars


(***************************************************************************)
NextCycle ==
    \/ StartCycle
    \/ PollAccepted
    \/ ScheduleReturns
    \/ RealtimeReturns
    \/ CycleTimeoutFires
    \/ FinishCycle
    \/ Tick

InitCycle ==
    /\ InitCoordinator
    /\ store = None

SpecCycle == InitCycle /\ [][NextCycle]_vars

(***************************************************************************)
(* SpecMalformed: the poll loop of SpecCycle over a device list in which   *)
(* some records may be malformed.                                          *)
(***************************************************************************)
InitMalformed ==
    /\ now = SevenOClock
    /\ delay_stats = EmptyDict
    /\ latest_delays = EmptyDict
    /\ store = None
    /\ save_tasks = 0
    /\ call = NoCall
    /\ ncalls = 0
    /\ rises = EmptyDict
    /\ CycleIdle
    /\ ApiIdle
    /\ HostIdle
    /\ malformed \in SUBSET (DOMAIN Devices)

NextMalformed ==
    \/ StartCycle
    \/ PollAccepted
    \/ DeviceKeyFails
    \/ ScheduleReturns
    \/ RealtimeReturns
    \/ CycleTimeoutFires
    \/ FinishCycle
    \/ Tick

SpecMalformed == InitMalformed /\ [][NextMalformed]_vars

(***************************************************************************)
(* SpecStats: _update_delay_stats called with arbitrary arguments.         *)
(***************************************************************************)
\* the calls are made at 07:00:00 of some day
InitStats ==
    /\ now \in {SevenOClock + d * DaySeconds : d \in 0..MaxDay}
    /\ delay_stats = EmptyDict
    /\ latest_delays = EmptyDict
    /\ store = None
    /\ save_tasks = 0
    /\ call = NoCall
    /\ ncalls = 0
    /\ rises = EmptyDict
    /\ CycleIdle
    /\ ApiIdle
    /\ HostIdle
    /\ WellFormed

\* _update_delay_stats is called for one of the keys, with one of the delays
\* or none, while fewer than max calls have been made
UpdateStatsCalled(keys, delays, max) ==
    /\ ncalls < max
    /\ \E key \in keys, had_realtime \in BOOLEAN,
          delay \in {None} \cup {Some(d) : d \in delays} :
          /\ delay_stats' = update_delay_stats(delay_stats, key, delay,
                                               had_realtime, DateOf(now))
          /\ call' = [device_id |-> key, delay |-> delay,
                      had_realtime |-> had_realtime,
                      before |-> Some(delay_stats), today |-> DateOf(now)]
          /\ rises' = RisesAfter(rises, delay_stats, delay_stats', key,
                                 had_realtime)
    /\ save_tasks' = save_tasks + 1
    /\ ncalls' = ncalls + 1
    /\ UNCHANGED <<confVars, hostVars, clockVars, latest_delays, store, cycleVars, apiVars,
                   rtVars, session>>

CallUpdateStats == UpdateStatsCalled(DeviceIds, Delays, MaxStatCalls)

NextStats == CallUpdateStats

SpecStats == InitStats /\ [][NextStats]_vars

(***************************************************************************)
(* SpecRuns: a longer sequence of calls of _update_delay_stats for one     *)
(* device, with no delay, a delay that does not count, or one that does.   *)
(***************************************************************************)
RunDelays == {0, DELAY_LOW + 3}

CallUpdateStatsOfOne ==
    UpdateStatsCalled({DeviceId(Devices[1])}, RunDelays, MaxRun)

NextRuns == CallUpdateStatsOfOne

SpecRuns == InitStats /\ [][NextRuns]_vars

(***************************************************************************)
(* SpecSave: the calls of SpecRuns together with the save tasks they       *)
(* create.  The event loop runs every task it was given                    *)
(* (hass.async_create_task, line 187), hence the weak fairness; the Store  *)
(* takes every write.                                                      *)
(***************************************************************************)
NextSave == CallUpdateStatsOfOne \/ SaveWrites

SpecSave == InitStats /\ [][NextSave]_vars /\ WF_vars(SaveWrites)

(***************************************************************************)
(* SpecSensor: the sensors of a device are read from the result of one     *)
(* cycle, at the time of the cycle and a day later.                        *)
(***************************************************************************)
\* the sensor types (sensor.py:31-77)
SensorKeys == {"scheduled_time", "delay_counter", "expected_time",
               "waiting_time", "delay", "latest_delay"}

\* What get_realtime_data gave the cycle: nothing, a match without a
\* predicted time, or a match predicted some minutes late on one of the
\* coming days.  A match carries the device's configured timestamp.
SensorRealtimes(device) ==
    {None} \cup
    { Some([dienstregelingTijdstip |-> Some(device.scheduled_time),
            realtime_time |-> r]) :
        r \in {None} \cup
              { Some(Timestamp(device.scheduled_time.sec + off + d * DaySeconds,
                               device.scheduled_time.z)) :
                  off \in RealtimeOffsets, d \in 0..MaxAhead } }

\* The cycle has polled one device: its departure was found some days ahead.
InitSensor ==
    /\ now \in ApiClocks
    /\ \E i \in DOMAIN Devices, ahead \in 0..MaxAhead :
       \E rt \in SensorRealtimes(Devices[i]) :
          LET device == Devices[i]
              key == DeviceId(device)
              day == DateOf(now)
              stats_map == update_delay_stats(EmptyDict, key,
                                              FreshDelay(rt, day),
                                              HasRealtime(rt), day)
              device_delays == DeviceDelaysAfter(EmptyDict, rt, day)
              schedule ==
                  <<ScheduleEntry(device.scheduled_time.sec + ahead * DaySeconds,
                                  device.scheduled_time.z, now)>>
              entry == DataEntry(device, key, schedule, rt, day, stats_map,
                                 device_delays)
          IN  /\ delay_stats = stats_map
              /\ latest_delays = DictSet(EmptyDict, key, device_delays)
              /\ coordinator_data = Some(DictSet(EmptyDict, key, entry))
              /\ call = [device_id |-> key, delay |-> FreshDelay(rt, day),
                         had_realtime |-> HasRealtime(rt),
                         before |-> Some(EmptyDict), today |-> day]
              /\ rises = RisesAfter(EmptyDict, EmptyDict, stats_map, key,
                                    HasRealtime(rt))
              /\ device_id = Some(key)
              /\ schedule_times = schedule
              /\ log = [NoLog EXCEPT !.computed = DictSet(EmptyDict, key, entry),
                                     !.visited = {key}]
    /\ store = None
    /\ save_tasks = 1
    /\ ncalls = 0
    /\ pc = "idle"
    /\ idx = 1
    /\ data = EmptyDict
    /\ today = DateOf(now)
    /\ elapsed = 0
    /\ outcome = "returned"
    /\ ncycles = 1
    /\ step = [kind |-> "returned", key |-> None, realtime |-> None]
    /\ ApiIdle
    /\ HostIdle
    /\ WellFormed

\* sensor.py:120-244: the host reads the state of one sensor
ReadSensor ==
    /\ \E i \in DOMAIN Devices, sensor_key \in SensorKeys :
          shown' = [key |-> sensor_key, device |-> i,
                    value |-> native_value(sensor_key, Devices[i]),
                    at |-> now]
    /\ UNCHANGED <<confVars, clockVars, coordVars, statVars, cycleVars, apiVars,
                   rtVars, session>>

NextSensor == ReadSensor \/ Tick

SpecSensor == InitSensor /\ [][NextSensor]_vars

(***************************************************************************)
(* Claims about _update_delay_stats, checked under SpecStats.              *)
(***************************************************************************)
Called == call.before # None

\* the stats of the called device before and after the last call
StatsBefore == DictGet(Val(call.before), call.device_id, ZeroStats)

StatsAfter == delay_stats[call.device_id]

\* The bucket the thresholds of the specification give an integer delay.
BucketOfClaim(d) ==
    IF d > 10 THEN "high_delay"
    ELSE IF 5 < d /\ d <= 10 THEN "medium_delay"
    ELSE IF 1 < d /\ d <= 5 THEN "low_delay"
    ELSE IF d < -6 THEN "high_early"
    ELSE IF -6 <= d /\ d < -3 THEN "medium_early"
    ELSE IF -3 <= d /\ d < -1 THEN "low_early"
    ELSE "none"

C2_DelayCounterStep ==
    Called =>
        /\ StatsAfter.delay_counter = StatsBefore.delay_counter
              + (IF /\ StatsBefore.last_delay # None
                    /\ Val(StatsBefore.last_delay) > 1
                    /\ StatsBefore.last_had_realtime
                    /\ ~call.had_realtime
                 THEN 1 ELSE 0)
        /\ \A d \in DOMAIN Val(call.before) \ {call.device_id} :
              delay_stats[d].delay_counter = Val(call.before)[d].delay_counter

\* C2 witness: a delayed device has just lost its realtime data and the
\* counter went from 0 to 1.
C2_Witness ==
    /\ Called
    /\ ~call.had_realtime
    /\ StatsBefore.last_delay # None
    /\ StatsBefore.last_had_realtime
    /\ StatsBefore.delay_counter = 0
    /\ StatsAfter.delay_counter = 1

\* the bucket counters the last call raised by one
BucketsRaised == {b \in Buckets : StatsAfter[b] = StatsBefore[b] + 1}

\* C17 as stated: every call with a delay raises exactly one of the six
\* bucket counters by 1 and leaves the other five unchanged.
C17_ExactlyOneBucket ==
    (Called /\ call.delay # None) =>
        /\ Cardinality(BucketsRaised) = 1
        /\ \A b \in Buckets \ BucketsRaised : StatsAfter[b] = StatsBefore[b]

\* C17 amended: a call with a delay raises exactly one bucket counter by 1
\* when the delay is above 1 or below -1, and none when it is in [-1, 1];
\* every other bucket counter is unchanged.
C17_AtMostOneBucket ==
    (Called /\ call.delay # None) =>
        /\ Cardinality(BucketsRaised) =
              IF Val(call.delay) > 1 \/ Val(call.delay) < -1 THEN 1 ELSE 0
        /\ \A b \in Buckets \ BucketsRaised : StatsAfter[b] = StatsBefore[b]

\* C17 witness: a call with delay 0 left all six counters as the call
\* before it, which had counted a delay, left them.
C17_Witness ==
    /\ Called
    /\ call.delay = Some(0)
    /\ StatsBefore.high_delay = 1
    /\ \A b \in Buckets : StatsAfter[b] = StatsBefore[b]

(***************************************************************************)
(* Claims about the poll cycle, checked under SpecCycle.                   *)
(***************************************************************************)
\* the last iteration ran lines 231-272 on a realtime match observed on
\* another day than the cycle's today
StaleMatchProcessed ==
    /\ step.kind = "processed"
    /\ HasRealtime(step.realtime)
    /\ DateOf(RealTimeOf(step.realtime).sec) # today

\* C3: when the matched realtime observation was observed on another
\* calendar date than the cycle's today, the device's latest_delay in the
\* cycle result is None, no bucket counter changes, and the persisted
\* last_delay and last_delay_date stay as they were.
C3_StaleMatchIgnored ==
    StaleMatchProcessed =>
        LET key == Val(step.key)
            before == DictGet(Val(call.before), key, ZeroStats)
        IN  /\ data[key].latest_delay = None
            /\ \A b \in Buckets : delay_stats[key][b] = before[b]
            /\ delay_stats[key].last_delay = before.last_delay
            /\ delay_stats[key].last_delay_date = before.last_delay_date

\* C3 witness: a stale match was processed for a device that has a
\* persisted delay of an earlier day.
C3_Witness ==
    /\ StaleMatchProcessed
    /\ delay_stats[Val(step.key)].last_delay # None
    /\ delay_stats[Val(step.key)].medium_delay > 0

\* the snapshot holds the device's schedule entry and no realtime match
ScheduledWithoutMatch(device) ==
    /\ SensorSchedule(device) # None
    /\ Val(SensorDeviceData(device)).realtime = None

\* C4: when the snapshot holds the device's schedule entry and no realtime
\* match, the latest-delay sensor shows the snapshot's last_known_delay if
\* its last_delay_date is the current date, and None otherwise.
C4_FallbackToLastKnown ==
    \A i \in DOMAIN Devices :
        ScheduledWithoutMatch(Devices[i]) =>
            LET entry == Val(SensorDeviceData(Devices[i]))
            IN  native_value("latest_delay", Devices[i]) =
                    IF entry.last_delay_date = Some(DateOf(now))
                    THEN entry.last_known_delay
                    ELSE None

\* C4 witness: one device falls back to the delay stored today while the
\* clock is still on that day.
C4_Witness ==
    \E i \in DOMAIN Devices :
        /\ ScheduledWithoutMatch(Devices[i])
        /\ Val(SensorDeviceData(Devices[i])).last_delay_date = Some(DateOf(now))
        /\ native_value("latest_delay", Devices[i]) = Some(7)

\* C6: a fetch error of one device does not end the cycle: unless the
\* timeout fires the loop goes on to every device, and each entry of the
\* returned result is the one computed from that device's own fetch.
C6_FailureIsolated ==
    /\ (log.failed # {} /\ ~log.timed_out /\ pc = "idle") =>
           /\ outcome = "returned"
           /\ log.visited = DeviceIds
    /\ step.kind = "returned" =>
           \A key \in DOMAIN log.computed :
               /\ key \in DOMAIN Val(coordinator_data)
               /\ Val(coordinator_data)[key] = log.computed[key]

\* C6 witness: the first device's fetch failed, and the cycle returned the
\* second device's own entry.
C6_Witness ==
    /\ step.kind = "returned"
    /\ log.failed = {DeviceId(Devices[1])}
    /\ DeviceId(Devices[2]) \in DOMAIN log.computed
    /\ Val(coordinator_data)[DeviceId(Devices[2])].latest_delay = Some(7)

\* C8 as stated: a failed cycle raises the refresh failure only when no
\* earlier snapshot exists, and returns the snapshot otherwise.
C8_CachedSnapshotReturned ==
    (pc = "idle" /\ log.timed_out) =>
        (outcome = "UpdateFailed" <=> log.before = None)

\* C8 amended: a failed cycle raises the refresh failure whether or not an
\* earlier cycle returned a snapshot; the snapshot is not returned again,
\* the host just keeps the one it was given.
C8_FailureAlwaysRaised ==
    (pc = "idle" /\ log.timed_out) =>
        /\ outcome = "UpdateFailed"
        /\ coordinator_data = log.before

\* C8 witness: a cycle failed although an earlier one had returned data.
C8_Witness ==
    /\ pc = "idle"
    /\ log.timed_out
    /\ log.before # None
    /\ Val(log.before) # EmptyDict
    /\ outcome = "UpdateFailed"

\* C9: the requests of a cycle share one 30-second timeout; when it fires
\* during a device's iteration the per-device handler does not absorb it:
\* nothing of the cycle runs afterwards, the cycle ends with the refresh
\* failure, and the entries computed so far are not handed to the host.
C9_TimeoutAbortsCycle ==
    /\ elapsed < CycleTimeout
    /\ log.timed_out =>
           /\ step.kind = "timeout"
           /\ pc = "idle"
           /\ outcome = "UpdateFailed"
           /\ coordinator_data = log.before

\* C9 witness: the timeout fired in the second device's iteration, after the
\* first device's entry had been computed.
C9_Witness ==
    /\ log.timed_out
    /\ step.key = Some(DeviceId(Devices[2]))
    /\ DeviceId(Devices[1]) \in DOMAIN log.computed
    /\ outcome = "UpdateFailed"

(***************************************************************************)
(* Claims about get_schedule_times, checked under SpecApi.                 *)
(***************************************************************************)
\* the dated schedule queries of the call, in the order issued
DatedRequests ==
    SelectSeq(requests,
              LAMBDA r : r.kind = "dienstregelingen" /\ r.date # None)

\* the call has a target time whose hour and minute have passed today
CalledAfterTarget ==
    /\ api_args.target_time # None
    /\ 60 * Val(api_args.target_time) < now % DaySeconds

\* the call is over, today's feed was read, and no request failed and no
\* departure read lacked its timestamp
EndedFaultless ==
    /\ api_pc = "idle"
    /\ api_result.status # "none"
    /\ api_loc.current_doorkomsten # None
    /\ api_loc.fault = "none"

C11_OnlyTargetReturned ==
    (api_result.status = "returned" /\ api_args.target_time # None) =>
        /\ \A i \in DOMAIN api_loc.all_doorkomsten :
              api_loc.all_doorkomsten[i].lijnnummer = api_args.line_number
        /\ \A i \in DOMAIN api_result.value :
              api_result.value[i].time = Val(api_args.target_time)

\* the selected departures that carry a scheduled timestamp
SelectedWithTimestamp ==
    SelectSeq(api_loc.all_doorkomsten,
              LAMBDA d : d.dienstregelingTijdstip # None)

\* C12: the call returns exactly one entry for each selected departure that
\* has a scheduled timestamp, written with the Z suffix or without, each
\* with waiting_time = round(minutes from the current time to the
\* timestamp), and the returned list ascends by waiting_time.
C12_OneEntryPerDeparture ==
    api_result.status = "returned" =>
        /\ Len(api_result.value) = Len(SelectedWithTimestamp)
        /\ \A i \in DOMAIN SelectedWithTimestamp :
              \E j \in DOMAIN api_result.value :
                 /\ api_result.value[j].timestamp =
                        Val(SelectedWithTimestamp[i].dienstregelingTijdstip)
                 /\ api_result.value[j].waiting_time =
                        RoundDiv(api_result.value[j].timestamp.sec - now, 60)
        /\ \A j \in 1..(Len(api_result.value) - 1) :
              api_result.value[j].waiting_time
                 <= api_result.value[j + 1].waiting_time

\* C14 as stated: when the entity-list request or a schedule-feed request of
\* the call fails, the call returns the empty list and raises nothing.
C14_FailureReturnsEmpty ==
    api_loc.fault = "request" =>
        api_result = [status |-> "returned", value |-> <<>>]

\* C14 amended: when the entity-list request or a schedule-feed request
\* (today's or that of a look-ahead date) fails, the call ends at once by
\* raising the error to its caller, and returns no list.
C14_FailureReRaised ==
    api_loc.fault = "request" =>
        /\ api_pc = "idle"
        /\ api_result = [status |-> "raised", value |-> <<>>]

\* C14 witness: the request for the third look-ahead date failed and the
\* call raised.
C14_Witness ==
    /\ api_loc.fault = "request"
    /\ Len(DatedRequests) = 3
    /\ api_result.status = "raised"

(***************************************************************************)
(* Claims about get_realtime_data, checked under SpecRealtime.             *)
(***************************************************************************)
\* the positions of the observations of the feed received whose line is the
\* requested one and whose scheduled timestamp is the string asked for
RtMatching ==
    { i \in DOMAIN Val(rt_loc.feed) :
        /\ Val(rt_loc.feed)[i].lijnnummer = rt_args.line_number
        /\ Val(rt_loc.feed)[i].dienstregelingTijdstip = rt_args.scheduled_time }

HalteRequests == SelectSeq(requests, LAMBDA r : r.kind = "haltes")

\* C15: the stop lookups of a call go through the entities in list order,
\* one per entity; a failed lookup is followed by the lookup for the next
\* entity; no lookup follows the one that succeeded; and when no entity
\* yields the stop, get_schedule_times returns the empty list and
\* get_realtime_data returns none, without raising.
C15_ProbeInListOrder ==
    /\ \A i \in DOMAIN HalteRequests :
          /\ i <= Len(Entities)
          /\ HalteRequests[i].entity = Some(Entities[i])
    /\ api_pc = "haltes" => Len(HalteRequests) = api_loc.entity_i - 1
    /\ rt_pc = "haltes" => Len(HalteRequests) = rt_loc.entity_i - 1
    /\ api_loc.entity_number # None =>
          /\ Len(HalteRequests) = api_loc.entity_i
          /\ HalteRequests[Len(HalteRequests)].entity = api_loc.entity_number
    /\ rt_loc.halte => Len(HalteRequests) = rt_loc.entity_i
    /\ (api_pc = "idle" /\ api_loc.entity_i > 0 /\ api_loc.entity_number = None) =>
          /\ Len(HalteRequests) = Len(Entities)
          /\ api_result = [status |-> "returned", value |-> <<>>]
    /\ (rt_pc = "idle" /\ rt_loc.entity_i > 0 /\ ~rt_loc.halte) =>
          /\ Len(HalteRequests) = Len(Entities)
          /\ rt_result = [status |-> "returned", value |-> None]

\* C15 witness: the lookup for the first entity failed, the one for the
\* second found the stop, and get_schedule_times went on and returned.
C15_Witness ==
    /\ api_loc.entity_number = Some(Entities[2])
    /\ Len(HalteRequests) = 2
    /\ api_result.status = "returned"
    /\ api_result.value # <<>>

\* C16: within a session the stop lookups are made at most once: after a
\* call has found the stop's entity, no later call issues a stop lookup.
C16_ProbedOnce == ~session.reprobed

(***************************************************************************)
(* Claims about the integration as shipped, checked under Spec.            *)
(***************************************************************************)
\* C5: the call of get_schedule_times with the device's known entity is
\* taken, and a returned cycle holds an entry with a non-empty schedule for
\* every configured device (the upstream feeds holding the departure and
\* answering every request).
C5_ScheduleCallAccepted ==
    /\ step.kind # "rejected"
    /\ step.kind = "returned" =>
           \A i \in DOMAIN Devices :
               /\ DeviceId(Devices[i]) \in DOMAIN Val(coordinator_data)
               /\ Val(coordinator_data)[DeviceId(Devices[i])].schedule # <<>>

\* C7: after a cycle in which a device's fetch failed, a device with a
\* persisted delay of the current date still shows it: the latest-delay
\* sensor its last_delay and the delay-counter sensor its delay_counter.
C7_LastKnownGoodShown ==
    \A i \in DOMAIN Devices :
        LET key == DeviceId(Devices[i])
        IN  ( /\ pc = "idle"
              /\ outcome = "returned"
              /\ key \in log.failed
              /\ key \in DOMAIN delay_stats
              /\ delay_stats[key].last_delay_date = Some(DateOf(now)) ) =>
                /\ native_value("latest_delay", Devices[i]) =
                       delay_stats[key].last_delay
                /\ native_value("delay_counter", Devices[i]) =
                       Some(delay_stats[key].delay_counter)

\* C18: the delay sensor shows a value only when the cycle result's
\* observation has both timestamps and was observed on the current date; an
\* observation of another day shows none.
C18_DelayOnlyOfToday ==
    \A i \in DOMAIN Devices :
        native_value("delay", Devices[i]) # None =>
            LET entry == Val(SensorDeviceData(Devices[i]))
            IN  /\ HasRealtime(entry.realtime)
                /\ DateOf(RealTimeOf(entry.realtime).sec) = DateOf(now)

\* the device whose sensor was read last
ShownDevice == Devices[shown.device]

\* the waiting-time sensor of a device with a cycle result was read last
ReadWaiting ==
    /\ shown.key = "waiting_time"
    /\ SensorSchedule(ShownDevice) # None

\* how the countdown of that read ended up
ShownMinutes ==
    WaitingMinutes(Val(SensorDeviceData(ShownDevice)),
                   Val(SensorSchedule(ShownDevice)), shown.at)

\* days, hours and minutes with the given text between days and hours
DayHourMinute(total_minutes, between) ==
    LET days == total_minutes \div (24 * 60)
        hours == (total_minutes % (24 * 60)) \div 60
        mins == total_minutes % 60
    IN  IF days >= 1
        THEN Decimal(days) \o between \o Pad2(hours) \o <<":">> \o Pad2(mins)
        ELSE Pad2(hours) \o <<":">> \o Pad2(mins)

\* C19: a waiting time of 1500 minutes is shown as "1.01:00"; one day or
\* more is written d.HH:mm, less than a day HH:mm.
C19_DottedDayFormat ==
    (ReadWaiting /\ ShownMinutes.kind = "minutes") =>
        /\ ShownMinutes.minutes = 1500 =>
               shown.value = Some(<<"1", ".", "0", "1", ":", "0", "0">>)
        /\ shown.value = Some(DayHourMinute(ShownMinutes.minutes, <<".">>))

\* C19 as the code has it: a waiting time of 1500 minutes is shown as
\* "1 days 01:00"; one day or more is written "<d> days HH:MM", less than a
\* day "HH:MM".
C19_DaysWordFormat ==
    (ReadWaiting /\ ShownMinutes.kind = "minutes") =>
        /\ ShownMinutes.minutes = 1500 =>
               shown.value = Some(<<"1", " ", "d", "a", "y", "s", " ",
                                    "0", "1", ":", "0", "0">>)
        /\ shown.value =
               Some(DayHourMinute(ShownMinutes.minutes,
                                  <<" ", "d", "a", "y", "s", " ">>))

\* a waiting time of 1500 minutes has been shown
C19_Witness ==
    /\ ReadWaiting
    /\ ShownMinutes.kind = "minutes"
    /\ ShownMinutes.minutes = 1500
    /\ shown.value # None

\* the cycle result of the device read last has no predicted time
NoPredictedTime ==
    LET entry == Val(SensorDeviceData(ShownDevice))
    IN  entry.realtime = None \/ Val(entry.realtime).realtime_time = None

\* C20: without a predicted time the waiting-time sensor counts down to the
\* scheduled timestamp moved on by the least number of whole days that makes
\* it not earlier than the time of the read; that number exists within the
\* days the clock has run, and no waiting time shown is negative.
C20_CountsDownToNextOccurrence ==
    ReadWaiting =>
        LET sec == Val(SensorSchedule(ShownDevice)).timestamp.sec
        IN  /\ NoPredictedTime =>
                \E k \in 0..(MaxDay + 1) :
                    /\ sec + k * DaySeconds >= shown.at
                    /\ k > 0 => sec + (k - 1) * DaySeconds < shown.at
                    /\ shown.value =
                           Some(WaitingText(
                               TruncDiv(sec + k * DaySeconds - shown.at, 60)))
            /\ ShownMinutes.minutes >= 0
            /\ shown.value # None =>
                   \A n \in DOMAIN Val(shown.value) : Val(shown.value)[n] # "-"

\* a countdown to a departure scheduled more than a day before the read
C20_Witness ==
    /\ ReadWaiting
    /\ NoPredictedTime
    /\ Val(SensorSchedule(ShownDevice)).timestamp.sec + DaySeconds < shown.at
    /\ shown.value # None

(***************************************************************************)
(* Further claims about _update_delay_stats, checked under SpecStats.      *)
(***************************************************************************)
\* C22: every call stores had_realtime in last_had_realtime; a call with a
\* delay stores the delay in last_delay and the current date in
\* last_delay_date; a call without a delay leaves both as they were.
C22_LastFieldsRecorded ==
    Called =>
        /\ StatsAfter.last_had_realtime = call.had_realtime
        /\ call.delay # None =>
               /\ StatsAfter.last_delay = call.delay
               /\ StatsAfter.last_delay_date = Some(DateOf(now))
        /\ call.delay = None =>
               /\ StatsAfter.last_delay = StatsBefore.last_delay
               /\ StatsAfter.last_delay_date = StatsBefore.last_delay_date

\* C22 witness: a call without delay and without realtime data followed one
\* that had stored a delay of 4 with realtime data; the delay and its date
\* stayed, last_had_realtime turned false.
C22_Witness ==
    /\ Called
    /\ call.delay = None
    /\ ~call.had_realtime
    /\ StatsBefore.last_delay = Some(4)
    /\ StatsBefore.last_had_realtime
    /\ StatsAfter.last_delay = Some(4)
    /\ StatsAfter.last_delay_date = StatsBefore.last_delay_date
    /\ ~StatsAfter.last_had_realtime

(***************************************************************************)
(* Further claims about the poll cycle, checked under SpecCycle.           *)
(***************************************************************************)
\* the seven counters of a device's statistics
Counters == Buckets \cup {"delay_counter"}

\* C23: the first call for a device key makes its entry with delay_counter
\* and the six bucket counters at 0 (the call then counts its own delay),
\* also when nothing was stored, and the cycle goes on; no call takes an
\* entry away or lowers one of the seven counters of any device.
C23_CreatedZeroNeverLowered ==
    /\ step.kind = "processed" =>
           /\ Called
           /\ step.key = Some(call.device_id)
           /\ call.device_id \in DOMAIN log.computed
    /\ Called =>
        /\ call.device_id \in DOMAIN delay_stats
        /\ call.device_id \notin DOMAIN Val(call.before) =>
               /\ StatsAfter.delay_counter = 0
               /\ \A b \in Buckets :
                      StatsAfter[b] =
                          IF call.delay # None /\ b = BucketOfClaim(Val(call.delay))
                          THEN 1 ELSE 0
        /\ \A k \in DOMAIN Val(call.before) :
               /\ k \in DOMAIN delay_stats
               /\ \A c \in Counters : delay_stats[k][c] >= Val(call.before)[k][c]

\* C23 witness: nothing was stored; the entry a first cycle made and counted
\* a delay in got a second delay counted by the next cycle.
C23_Witness ==
    /\ store = None
    /\ Called
    /\ call.device_id \in DOMAIN Val(call.before)
    /\ StatsBefore.medium_delay = 1
    /\ StatsBefore.delay_counter = 0
    /\ StatsAfter.medium_delay = 2

\* C24: the scheduled timestamp the cycle passes to get_realtime_data for a
\* device is the timestamp of one of the departures get_schedule_times has
\* just returned for it.
C24_RealtimeAskedForReturnedDeparture ==
    pc = "await_realtime" =>
        \E i \in DOMAIN schedule_times :
            schedule_times[i].timestamp = RealtimeScheduledTime(Devices[idx])

\* C25: a cycle the timeout aborted leaves the statistics of every device,
\* those processed before the timeout included, as they were when the cycle
\* started.
C25_TimeoutLeavesStats ==
    (log.timed_out /\ pc = "idle") => delay_stats = log.stats_before

\* a snapshot has been returned and a later cycle has started since
LaterCycleStarted ==
    /\ coordinator_data # None
    /\ log.before = coordinator_data
    /\ step.kind \notin {"none", "returned"}

\* C28: what the delay_counter sensor reads from the last returned snapshot,
\* its value and its six bucket attributes, stays as it was when a later
\* cycle started, until that cycle returns a new snapshot, and also when
\* it fails.
C28_SnapshotKeepsStats ==
    LaterCycleStarted =>
        \A i \in DOMAIN Devices :
            LET key == DeviceId(Devices[i])
                before == DictGet(log.stats_before, key, ZeroStats)
            IN  key \in DOMAIN Val(coordinator_data) =>
                  /\ native_value("delay_counter", Devices[i]) # None =>
                         native_value("delay_counter", Devices[i])
                             = Some(before.delay_counter)
                  /\ DelayCounterAttributes(Devices[i])
                         = Some([b \in Buckets |-> before[b]])

(***************************************************************************)
(* Claims about sequences of calls for one device, checked under SpecRuns. *)
(***************************************************************************)
\* C26: between two calls with realtime data the delay_counter of a device
\* rises at most once: once it has risen, it does not rise again before a
\* call with had_realtime = true.
C26_OneRisePerRun == \A k \in DOMAIN rises : rises[k] <= 1

\* C26 witness: the counter rose when the realtime data of a delayed
\* device was lost, and the next call, again without realtime data, left
\* it as it was.
C26_Witness ==
    /\ Called
    /\ ~call.had_realtime
    /\ rises[call.device_id] = 1
    /\ ~StatsBefore.last_had_realtime
    /\ StatsBefore.delay_counter = 1
    /\ StatsAfter.delay_counter = 1

(***************************************************************************)
(* Claims about saving, checked under SpecSave.                            *)
(***************************************************************************)
\* every save task has run and the Store holds the three maps as they are
SavedUpToDate ==
    /\ save_tasks = 0
    /\ store # None
    /\ DOMAIN Val(store) = {"delay_stats", "latest_delays", "last_update_time"}
    /\ Val(store).delay_stats = delay_stats
    /\ Val(store).latest_delays = latest_delays

C27_KeyFailureHarmless ==
    /\ step.kind = "keyfailed" =>
           /\ outcome = "running"
           /\ \A k \in DOMAIN log.computed :
                  k \in DOMAIN data /\ data[k] = log.computed[k]
    /\ step.kind = "returned" =>
           \A k \in DOMAIN log.computed :
               /\ k \in DOMAIN Val(coordinator_data)
               /\ Val(coordinator_data)[k] = log.computed[k]

====
